---- MODULE Spec2Model ----
(***************************************************************************)
(* Watershed monitoring engine of consorcio-canalero (gee-backend):        *)
(* parcel classifier, area aggregation, change detector, alert generator,  *)
(* the dashboard summary cache, the background jobs, the Sentinel-2        *)
(* composites and the request rate limiter.                                *)
(*                                                                         *)
(* Index values, thresholds, areas and percentages are fixed-point         *)
(* numbers in hundredths: 0.15 is 15, 5.01 % is 501.  Times are seconds.   *)
(***************************************************************************)
EXTENDS Integers, Sequences, FiniteSets, TLC

VARIABLES
    raster,      \* last pixel classified by classify_parcels: inputs, the five masks, class id
    cache,       \* _dashboard_cache: [data, expires_at]
    clock,       \* time.time()
    req,         \* per dashboard request: position, captured now, response
    summaries,   \* number of get_monitoring_summary invocations so far
    refreshes,   \* per stored payload id: the `now` of the request that produced it
    cambios,     \* last detect_changes call: period outcomes, classify calls made, result
    alertas,     \* last alert generation: inputs and the returned alert list
    parcelas,    \* last classify_parcels call over a region: query, backend data, response
    jobs,        \* background jobs: per job its state, start time and attempts
    composite,   \* last Sentinel-2 composite built: caller, dates, collection, masking
    limiter      \* DistributedRateLimiter and the requests going through its middleware

vars == <<raster, cache, clock, req, summaries, refreshes, cambios, alertas, parcelas, jobs,
          composite, limiter>>

(***************************************************************************)
(* Parcel classifier: MonitoringService.classify_parcels, per pixel        *)
(***************************************************************************)

\* the defaults with the water cutoff of MNDWI at 0.3
DefaultThresholdsHighWater ==
    [mndwi_agua |-> 30, ndwi_agua_alto |-> 35, ndvi_max_agua |-> 10,
     mndwi_anegado_min |-> -10, mndwi_anegado_max |-> 15,
     ndmi_anegado_min |-> 25, ndvi_anegado_max |-> 30,
     ndvi_cultivo_sano |-> 40, ndmi_cultivo_min |-> -10, ndmi_cultivo_max |-> 40,
     bsi_suelo_desnudo |-> 5, ndvi_suelo_max |-> 15, mndwi_suelo_max |-> -20]

\* ClassificationThresholds() defaults
DefaultThresholds ==
    [mndwi_agua |-> 15, ndwi_agua_alto |-> 35, ndvi_max_agua |-> 10,
     mndwi_anegado_min |-> -10, mndwi_anegado_max |-> 15,
     ndmi_anegado_min |-> 25, ndvi_anegado_max |-> 30,
     ndvi_cultivo_sano |-> 40, ndmi_cultivo_min |-> -10, ndmi_cultivo_max |-> 40,
     bsi_suelo_desnudo |-> 5, ndvi_suelo_max |-> 15, mndwi_suelo_max |-> -20]

\* Caller-supplied thresholds whose raw rules overlap (water band wider than
\* the water cutoff, bare-soil ceiling above the healthy-crop floor).
OverlapThresholds ==
    [mndwi_agua |-> 0, ndwi_agua_alto |-> 0, ndvi_max_agua |-> 45,
     mndwi_anegado_min |-> -30, mndwi_anegado_max |-> 30,
     ndmi_anegado_min |-> 10, ndvi_anegado_max |-> 60,
     ndvi_cultivo_sano |-> 10, ndmi_cultivo_min |-> -10, ndmi_cultivo_max |-> 50,
     bsi_suelo_desnudo |-> 0, ndvi_suelo_max |-> 60, mndwi_suelo_max |-> 30]

\* Caller-supplied thresholds under which water is rare and soil rules are wide.
DryThresholds ==
    [mndwi_agua |-> 30, ndwi_agua_alto |-> 40, ndvi_max_agua |-> 5,
     mndwi_anegado_min |-> 15, mndwi_anegado_max |-> 30,
     ndmi_anegado_min |-> 40, ndvi_anegado_max |-> 15,
     ndvi_cultivo_sano |-> 30, ndmi_cultivo_min |-> 10, ndmi_cultivo_max |-> 30,
     bsi_suelo_desnudo |-> 0, ndvi_suelo_max |-> 45, mndwi_suelo_max |-> 15]

ThresholdSets == {DefaultThresholds, OverlapThresholds, DryThresholds}

NdviVals  == {5, 10, 15, 30, 40, 45, 60}
NdwiVals  == {0, 35, 40}
MndwiVals == {-30, -20, -10, 0, 15, 30}
NdmiVals  == {-10, 10, 25, 30, 40, 50}
BsiVals   == {0, 5, 10}

Pixels ==
    [ndvi : NdviVals, ndwi : NdwiVals, mndwi : MndwiVals, ndmi : NdmiVals, bsi : BsiVals]

\* ParcelClass ids
CULTIVO_SANO    == 0
RASTROJO        == 1
AGUA_SUPERFICIE == 2
LOTE_ANEGADO    == 3
SUELO_DESNUDO   == 4

agua(p, th) ==
    \/ p.mndwi > th.mndwi_agua
    \/ (p.ndwi > th.ndwi_agua_alto /\ p.ndvi < th.ndvi_max_agua)

\* anegado without the agua.Not() gate
anegado_ungated(p, th) ==
    \/ (/\ p.mndwi > th.mndwi_anegado_min
        /\ p.mndwi < th.mndwi_anegado_max
        /\ p.ndvi < th.ndvi_anegado_max)
    \/ (p.ndmi > th.ndmi_anegado_min /\ p.ndvi < th.ndvi_anegado_max)

anegado(p, th) ==
    /\ ~agua(p, th)
    /\ \/ (/\ p.mndwi > th.mndwi_anegado_min
           /\ p.mndwi < th.mndwi_anegado_max
           /\ p.ndvi < th.ndvi_anegado_max)
       \/ (p.ndmi > th.ndmi_anegado_min /\ p.ndvi < th.ndvi_anegado_max)

cultivo_sano(p, th) ==
    /\ ~agua(p, th)
    /\ ~anegado(p, th)
    /\ p.ndvi > th.ndvi_cultivo_sano
    /\ p.ndmi > th.ndmi_cultivo_min
    /\ p.ndmi < th.ndmi_cultivo_max

\* suelo_desnudo without the cultivo_sano.Not() gate
suelo_desnudo_ungated(p, th) ==
    /\ ~agua(p, th)
    /\ ~anegado(p, th)
    /\ p.bsi > th.bsi_suelo_desnudo
    /\ p.ndvi < th.ndvi_suelo_max
    /\ p.mndwi < th.mndwi_suelo_max

suelo_desnudo(p, th) ==
    /\ ~agua(p, th)
    /\ ~anegado(p, th)
    /\ ~cultivo_sano(p, th)
    /\ p.bsi > th.bsi_suelo_desnudo
    /\ p.ndvi < th.ndvi_suelo_max
    /\ p.mndwi < th.mndwi_suelo_max

rastrojo(p, th) ==
    /\ ~agua(p, th)
    /\ ~anegado(p, th)
    /\ ~cultivo_sano(p, th)
    /\ ~suelo_desnudo(p, th)

\* ee.Image.where(test, value) at one pixel
Where(img, test, value) == IF test THEN value ELSE img

classified(p, th) ==
    Where(Where(Where(Where(Where(RASTROJO,
        cultivo_sano(p, th), CULTIVO_SANO),
        rastrojo(p, th), RASTROJO),
        agua(p, th), AGUA_SUPERFICIE),
        anegado(p, th), LOTE_ANEGADO),
        suelo_desnudo(p, th), SUELO_DESNUDO)

\* no pixel is being classified
RasterIdle ==
    raster = [valid |-> FALSE, pixel |-> CHOOSE p \in Pixels : TRUE, th |-> DefaultThresholds]

\* a pixel with defined index values and the thresholds of the run
RasterInit ==
    raster \in [valid : {FALSE}, pixel : Pixels, th : ThresholdSets]

\* classify_parcels, lines 291-356, at one pixel with defined index values
ClassifyPixel ==
    /\ ~raster.valid
    /\ LET p == raster.pixel
           th == raster.th
       IN
        /\ raster' = [valid |-> TRUE, pixel |-> p, th |-> th,
                      agua |-> agua(p, th),
                      anegado |-> anegado(p, th),
                      cultivo_sano |-> cultivo_sano(p, th),
                      suelo_desnudo |-> suelo_desnudo(p, th),
                      rastrojo |-> rastrojo(p, th),
                      classified |-> classified(p, th)]
        /\ UNCHANGED <<cache, clock, req, summaries, refreshes, cambios, alertas, parcelas, jobs,
                   composite, limiter>>

(***************************************************************************)
(* Dashboard summary cache: api/v1/endpoints/monitoring.py                 *)
(***************************************************************************)

\* _dashboard_cache["ttl_seconds"]
TTL == 300

NumReq       == 2     \* concurrent dashboard requests
MaxSummaries == 3     \* get_monitoring_summary invocations explored
MaxClock     == 500   \* last clock value explored
TickSteps    == {100}

Reqs == 1..NumReq

NoData == [kind |-> "none", id |-> 0]
Payload(id) == [kind |-> "ok", id |-> id]
ErrorSummary(id) == [kind |-> "error", id |-> id]

\* the validity test with the comparison turned round
CacheValidInverted(now) ==
    cache.data.kind = "ok" /\ now > cache.expires_at

\* _dashboard_cache["data"] and now < _dashboard_cache["expires_at"]
CacheValid(now) ==
    cache.data.kind = "ok" /\ now < cache.expires_at

\* the expiry taken from the time of the write instead of the time of the read
StoreSummaryLateClock(summary, now) ==
    IF summary.kind # "error"
    THEN [data |-> summary, expires_at |-> clock + TTL]
    ELSE cache

\* the slot cleared when the refresh fails
StoreSummaryOrClear(summary, now) ==
    IF summary.kind # "error"
    THEN [data |-> summary, expires_at |-> now + TTL]
    ELSE [data |-> NoData, expires_at |-> 0]

\* lines 43-46: the slot after a summary has been returned to a request that read at `now`
StoreSummary(summary, now) ==
    IF summary.kind # "error"
    THEN [data |-> summary, expires_at |-> now + TTL]
    ELSE cache

\* get_dashboard_data, lines 68-91: the response built from what _get_cached_or_fetch
\* returned; slot_fresh notes whether the slot held an unexpired payload at that moment
Response(summary, from_cache) ==
    IF summary.kind = "error"
    THEN [status |-> 400, summary |-> summary, from_cache |-> from_cache,
          slot_fresh |-> CacheValid(clock)]
    ELSE [status |-> 200, summary |-> summary, from_cache |-> from_cache,
          slot_fresh |-> CacheValid(clock)]

\* get_dashboard_data, lines 95-101: anything raised below becomes DASHBOARD_ERROR
Fault == [status |-> 500, summary |-> NoData, from_cache |-> FALSE,
          slot_fresh |-> CacheValid(clock)]

IdleReq == [pc |-> "idle", now |-> 0, call |-> 0,
            resp |-> [status |-> 0, summary |-> NoData, from_cache |-> FALSE,
                      slot_fresh |-> FALSE]]

DashboardInit ==
    /\ cache = [data |-> NoData, expires_at |-> 0]
    /\ clock = 100
    /\ req = [r \in Reqs |-> IdleReq]
    /\ summaries = 0
    /\ refreshes = [i \in 1..MaxSummaries |-> 0]

\* time passes
Tick ==
    /\ \E d \in TickSteps :
        /\ clock + d <= MaxClock
        /\ clock' = clock + d
    /\ UNCHANGED <<raster, cache, req, summaries, refreshes, cambios, alertas, parcelas, jobs,
                   composite, limiter>>

\* get_dashboard_data up to the first suspension point: lines 31-41.
\* A hit answers at once; a miss hands get_monitoring_summary to a worker thread.
DashboardStart(r) ==
    /\ req[r].pc = "idle"
    /\ IF CacheValid(clock)
       THEN /\ req' = [req EXCEPT ![r] =
                        [pc |-> "idle", now |-> clock, call |-> 0,
                         resp |-> Response(cache.data, TRUE)]]
            /\ UNCHANGED <<summaries, refreshes>>
       ELSE /\ summaries < MaxSummaries
            /\ summaries' = summaries + 1
            /\ refreshes' = [refreshes EXCEPT ![summaries + 1] = clock]
            /\ req' = [req EXCEPT ![r] =
                        [pc |-> "fetching", now |-> clock, call |-> summaries + 1,
                         resp |-> IdleReq.resp]]
    /\ UNCHANGED <<raster, cache, clock, cambios, alertas, parcelas, jobs,
                   composite, limiter>>

\* get_monitoring_summary returned (a summary or an error result): lines 43-48, 68-91
DashboardResume(r) ==
    /\ req[r].pc = "fetching"
    /\ \E summary \in {Payload(req[r].call), ErrorSummary(req[r].call)} :
        /\ cache' = StoreSummary(summary, req[r].now)
        /\ req' = [req EXCEPT ![r].pc = "idle", ![r].resp = Response(summary, FALSE)]
    /\ UNCHANGED <<raster, clock, summaries, refreshes, cambios, alertas, parcelas, jobs,
                   composite, limiter>>

\* get_monitoring_summary raised: nothing after line 41 runs, lines 95-101 answer
DashboardRaise(r) ==
    /\ req[r].pc = "fetching"
    /\ req' = [req EXCEPT ![r].pc = "idle", ![r].resp = Fault]
    /\ UNCHANGED <<raster, cache, clock, summaries, refreshes, cambios, alertas, parcelas, jobs,
                   composite, limiter>>

(***************************************************************************)
(* Area aggregation: classify_parcels, lines 269-280 and 358-470.          *)
(* What the imagery backend yields for one region and period is a record   *)
(* [fault, count, groups, area_total]: whether a backend call raises, the  *)
(* number of scenes, the grouped pixel-area sums (class id -> area) and    *)
(* the area of the geometry, both in hundredths of a hectare.              *)
(***************************************************************************)

class_names ==
    (CULTIVO_SANO :> "cultivo_sano") @@ (RASTROJO :> "rastrojo") @@
    (AGUA_SUPERFICIE :> "agua_superficie") @@ (LOTE_ANEGADO :> "lote_anegado") @@
    (SUELO_DESNUDO :> "suelo_desnudo")

\* round(n / d, 0) for n >= 0, d > 0, ties to even as Python's round
RoundDiv(n, d) ==
    LET q == n \div d
        r == n % d
    IN  IF 2 * r < d THEN q
        ELSE IF 2 * r > d THEN q + 1
        ELSE q + (q % 2)

\* the percentage truncated, not rounded, to two decimals
PorcentajeTruncated(area, area_total) ==
    IF area_total > 0 THEN (area * 10000) \div area_total ELSE 0

\* round((area / area_total * 100) if area_total > 0 else 0, 2), in hundredths of a percent
Porcentaje(area, area_total) ==
    IF area_total > 0 THEN RoundDiv(area * 10000, area_total) ELSE 0

\* stats_resumen[...] of a class: its area when the class has a group, else 0.0
GroupArea(groups, class_id) ==
    IF class_id \in DOMAIN groups THEN groups[class_id] ELSE 0

\* a backend call (getInfo) raised
EEException == [exception |-> "EEException"]

classify_parcels(rd) ==
    IF rd.fault THEN EEException
    ELSE IF rd.count = 0
    THEN [error |-> "No se encontraron imagenes Sentinel-2 con pocas nubes"]
    ELSE LET area_problematica ==
                 GroupArea(rd.groups, AGUA_SUPERFICIE) + GroupArea(rd.groups, LOTE_ANEGADO)
         IN  [area_total_ha |-> rd.area_total,
              clases |-> [n \in {class_names[c] : c \in DOMAIN rd.groups} |->
                            LET c == CHOOSE k \in DOMAIN rd.groups : class_names[k] = n
                            IN  [hectareas |-> rd.groups[c],
                                 porcentaje |-> Porcentaje(rd.groups[c], rd.area_total),
                                 class_id |-> c]],
              resumen |->
                 [area_productiva_ha |-> GroupArea(rd.groups, CULTIVO_SANO),
                  area_vulnerable_ha |-> GroupArea(rd.groups, RASTROJO),
                  area_con_agua_ha |-> GroupArea(rd.groups, AGUA_SUPERFICIE),
                  area_anegada_ha |-> GroupArea(rd.groups, LOTE_ANEGADO),
                  area_suelo_desnudo_ha |-> GroupArea(rd.groups, SUELO_DESNUDO),
                  area_problematica_ha |-> area_problematica,
                  porcentaje_problematico |-> Porcentaje(area_problematica, rd.area_total)],
              imagenes_procesadas |-> rd.count]

\* "error" in result
HasError(result) == "error" \in DOMAIN result
\* the call raised instead of returning
Raised(result) == "exception" \in DOMAIN result

\* A region of `total` hundredths of a hectare with `a` of surface water and `g` of
\* waterlogged field; the rest is stubble (absent from the groups when empty).
Scene(total, a, g) ==
    [fault |-> FALSE, count |-> 3, area_total |-> total,
     groups |-> [c \in {k \in {RASTROJO, AGUA_SUPERFICIE, LOTE_ANEGADO} :
                          \/ (k = RASTROJO /\ total - a - g > 0)
                          \/ (k = AGUA_SUPERFICIE /\ a > 0)
                          \/ (k = LOTE_ANEGADO /\ g > 0)} |->
                   IF c = AGUA_SUPERFICIE THEN a
                   ELSE IF c = LOTE_ANEGADO THEN g
                   ELSE total - a - g]]

NoImagery == [fault |-> FALSE, count |-> 0, area_total |-> 0, groups |-> <<>>]
BackendFault == [fault |-> TRUE, count |-> 0, area_total |-> 0, groups |-> <<>>]

(***************************************************************************)
(* Change detector: MonitoringService.detect_changes                       *)
(***************************************************************************)

\* result["clases"].get(clase, {}).get(field, 0)
ClaseGet(result, clase, field) ==
    IF clase \in DOMAIN result.clases THEN result.clases[clase][field] ELSE 0

CambioClases == {"cultivo_sano", "rastrojo", "agua_superficie", "lote_anegado"}

\* lines 641-655; round(x, 2) of a difference of two-decimal numbers is that difference
cambios_por_clase(result1, result2) ==
    [clase \in CambioClases |->
        [periodo1_ha |-> ClaseGet(result1, clase, "hectareas"),
         periodo2_ha |-> ClaseGet(result2, clase, "hectareas"),
         diferencia_ha |-> ClaseGet(result2, clase, "hectareas")
                            - ClaseGet(result1, clase, "hectareas"),
         periodo1_pct |-> ClaseGet(result1, clase, "porcentaje"),
         periodo2_pct |-> ClaseGet(result2, clase, "porcentaje"),
         diferencia_pct |-> ClaseGet(result2, clase, "porcentaje")
                             - ClaseGet(result1, clase, "porcentaje")]]

\* Pairs <<cambio_anegado, cambio_agua>> of two-decimal deltas, in hundredths, whose
\* sum as doubles differs from their decimal sum, among the pairs explored whose
\* decimal sum is a cutoff: 8.05 + -3.05 = 5.000000000000001 and
\* -8.05 + 3.05 = -5.000000000000001
SumRoundedUp == {<<805, -305>>}
SumRoundedDown == {<<-805, 305>>}

\* x + y > k / 100 for the doubles x, y nearest a / 100, b / 100 and a cutoff that
\* is a double itself: the decimal sum decides unless it is the cutoff, where the
\* rounding of the double sum decides
sum_gt(a, b, k) == a + b > k \/ (a + b = k /\ <<a, b>> \in SumRoundedUp)
sum_lt(a, b, k) == a + b < k \/ (a + b = k /\ <<a, b>> \in SumRoundedDown)

\* lines 658-676: cambio_problematico = cambio_anegado + cambio_agua and the
\* if/elif chain on it
tendencia(cambio_anegado, cambio_agua) ==
    IF sum_gt(cambio_anegado, cambio_agua, 500) THEN "empeoramiento_significativo"
    ELSE IF sum_gt(cambio_anegado, cambio_agua, 100) THEN "empeoramiento_leve"
    ELSE IF sum_lt(cambio_anegado, cambio_agua, -500) THEN "mejora_significativa"
    ELSE IF sum_lt(cambio_anegado, cambio_agua, -100) THEN "mejora_leve"
    ELSE "estable"

\* the error of period 1 reported whichever period failed
period_error_first(periodo, result) ==
    [error |-> <<"Error en periodo 1", result.error>>]

\* lines 623-625 and 636-638: f"Error en periodo {n}: {result['error']}"
period_error(periodo, result) ==
    [error |-> <<IF periodo = 1 THEN "Error en periodo 1" ELSE "Error en periodo 2",
                 result.error>>]

\* detect_changes given what the backend yields for period 1 and period 2:
\* [calls, out] with the periods classified, in order, and the value returned
detect_changes(rd1, rd2) ==
    LET result1 == classify_parcels(rd1)
        result2 == classify_parcels(rd2)
    IN  IF Raised(result1) THEN [calls |-> <<1>>, out |-> result1]
        ELSE IF HasError(result1)
        THEN [calls |-> <<1>>, out |-> period_error(1, result1)]
        ELSE IF Raised(result2) THEN [calls |-> <<1, 2>>, out |-> result2]
        ELSE IF HasError(result2)
        THEN [calls |-> <<1, 2>>, out |-> period_error(2, result2)]
        ELSE LET cambios_clase == cambios_por_clase(result1, result2)
                 cambio_anegado == cambios_clase["lote_anegado"].diferencia_pct
                 cambio_agua == cambios_clase["agua_superficie"].diferencia_pct
             IN  [calls |-> <<1, 2>>,
                  out |-> [periodo1 |-> [resumen |-> result1.resumen],
                           periodo2 |-> [resumen |-> result2.resumen],
                           cambios_por_clase |-> cambios_clase,
                           \* round(cambio_problematico, 2) is the decimal sum
                           tendencia |-> [codigo |-> tendencia(cambio_anegado, cambio_agua),
                                          cambio_total_pct |-> cambio_anegado + cambio_agua]]]

\* Region areas explored: 100 ha maps areas to percentages one to one; with 300 ha
\* the period-2 areas are no multiples of 0.01 % and the percentages are rounded
AreaTotals == {10000, 30000}
AguaDeltas == {-305, -100, 0, 100, 305}
AnegadoDeltas == {-805, -601, -600, -501, -500, -401, -400, -201, -200, -101, -100, -1, 0,
                  1, 100, 101, 200, 201, 400, 401, 500, 501, 600, 601, 805}

\* period 1 holds 5 % of water and 10 % of waterlogged field
Period1Scene(total) == Scene(total, (total \div 100) * 5, (total \div 100) * 10)
Period2Scenes(total) ==
    {Scene(total, (total \div 100) * 5 + (total \div 10000) * da,
                  (total \div 100) * 10 + (total \div 10000) * dg + (total \div 10000) - 1) :
        da \in AguaDeltas, dg \in AnegadoDeltas}

\* no change detection is under way
CambiosIdle ==
    cambios = [called |-> FALSE, rd1 |-> NoImagery, rd2 |-> NoImagery]

\* what the backend will yield for the two periods of one detect_changes call
CambiosInit ==
    \E total \in AreaTotals :
      \E rd1 \in {Period1Scene(total), Scene(total, 0, 0), NoImagery, BackendFault},
         rd2 \in Period2Scenes(total) \cup {NoImagery, BackendFault} :
        cambios = [called |-> FALSE, rd1 |-> rd1, rd2 |-> rd2]

DetectChanges ==
    /\ ~cambios.called
    /\ LET rd1 == cambios.rd1
           rd2 == cambios.rd2
       IN
        /\ cambios' = [called |-> TRUE, rd1 |-> rd1, rd2 |-> rd2,
                       calls |-> detect_changes(rd1, rd2).calls,
                       out |-> detect_changes(rd1, rd2).out]
        /\ UNCHANGED <<raster, cache, clock, req, summaries, refreshes, alertas, parcelas, jobs,
                   composite, limiter>>

(***************************************************************************)
(* Cross-watershed classification and the alert generator                  *)
(***************************************************************************)

\* self.cuencas, in insertion order
CuencaOrder == <<"candil", "ml", "noroeste", "norte">>
Cuencas == {CuencaOrder[i] : i \in DOMAIN CuencaOrder}

\* AlertConfig() defaults
alert_config ==
    [cambio_anegado_pct |-> 500, cambio_agua_pct |-> 300,
     anegado_critico_pct |-> 2000, agua_critico_pct |-> 1000]

\* list.sort(key=...): binary insertion to the right of equal keys, hence stable
SortedInsert(sorted, x, key) ==
    LET n == Cardinality({i \in DOMAIN sorted : key[sorted[i]] <= key[x]})
    IN  SubSeq(sorted, 1, n) \o <<x>> \o SubSeq(sorted, n + 1, Len(sorted))

RECURSIVE StableSort(_, _)
StableSort(s, key) ==
    IF s = <<>> THEN <<>>
    ELSE SortedInsert(StableSort(SubSeq(s, 1, Len(s) - 1), key), s[Len(s)], key)

\* lines 550-565: the results kept, in the order the watersheds are classified, as
\* [raised, list]; a backend fault in one classification leaves the loop
RECURSIVE resultados(_, _)
resultados(order, rds) ==
    IF order = <<>> THEN [raised |-> FALSE, list |-> <<>>]
    ELSE LET rest == resultados(SubSeq(order, 1, Len(order) - 1), rds)
             nombre == order[Len(order)]
             result == classify_parcels(rds[nombre])
         IN  IF rest.raised THEN rest
             ELSE IF Raised(result) THEN [raised |-> TRUE, list |-> <<>>]
             ELSE IF ~HasError(result)
             THEN [raised |-> FALSE,
                   list |-> Append(rest.list, [cuenca |-> nombre,
                                               area_total_ha |-> result.area_total_ha,
                                               clases |-> result.clases,
                                               resumen |-> result.resumen])]
             ELSE rest

\* the ranking left in the order of classification
ranking_unsorted(res) ==
    [i \in DOMAIN res |->
        [cuenca |-> res[i].cuenca,
         porcentaje_problematico |-> res[i].resumen.porcentaje_problematico,
         area_anegada_ha |-> res[i].resumen.area_anegada_ha]]

\* lines 567-581
ranking_criticidad(res) ==
    LET entries == [i \in DOMAIN res |->
                      [cuenca |-> res[i].cuenca,
                       porcentaje_problematico |-> res[i].resumen.porcentaje_problematico,
                       area_anegada_ha |-> res[i].resumen.area_anegada_ha]]
    IN  StableSort(entries, [e \in {entries[i] : i \in DOMAIN entries} |->
                                0 - e.porcentaje_problematico])

classify_parcels_by_cuenca(order, rds) ==
    LET res == resultados(order, rds)
    IN  IF res.raised THEN EEException
        ELSE [cuencas |-> res.list, ranking_criticidad |-> ranking_criticidad(res.list)]

\* the absolute alert with inclusive cutoffs
area_alert_inclusive(nombre_cuenca, resumen) ==
    IF resumen.porcentaje_problematico >= alert_config.anegado_critico_pct
    THEN <<[tipo |-> "area_critica", severidad |-> "alta", cuenca |-> nombre_cuenca,
            accion_sugerida |-> "Inspeccionar sistema de drenaje de la cuenca",
            porcentaje |-> resumen.porcentaje_problematico]>>
    ELSE IF resumen.porcentaje_problematico >= 1000
    THEN <<[tipo |-> "area_elevada", severidad |-> "media", cuenca |-> nombre_cuenca,
            accion_sugerida |-> "Monitorear evolucion en proximos dias",
            porcentaje |-> resumen.porcentaje_problematico]>>
    ELSE <<>>

\* lines 733-761 and 892-920: the absolute alert of one watershed, if any
area_alert(nombre_cuenca, resumen) ==
    IF resumen.porcentaje_problematico > alert_config.anegado_critico_pct
    THEN <<[tipo |-> "area_critica", severidad |-> "alta", cuenca |-> nombre_cuenca,
            accion_sugerida |-> "Inspeccionar sistema de drenaje de la cuenca",
            porcentaje |-> resumen.porcentaje_problematico]>>
    ELSE IF resumen.porcentaje_problematico > 1000
    THEN <<[tipo |-> "area_elevada", severidad |-> "media", cuenca |-> nombre_cuenca,
            accion_sugerida |-> "Monitorear evolucion en proximos dias",
            porcentaje |-> resumen.porcentaje_problematico]>>
    ELSE <<>>

\* lines 726-761 and 885-920
RECURSIVE area_alerts(_)
area_alerts(res) ==
    IF res = <<>> THEN <<>>
    ELSE area_alerts(SubSeq(res, 1, Len(res) - 1))
         \o area_alert(res[Len(res)].cuenca, res[Len(res)].resumen)

\* lines 766-790: the rising-waterlogging alert of one watershed, if any
change_alert(nombre_cuenca, cambio) ==
    IF ~HasError(cambio) /\ cambio.tendencia.cambio_total_pct > alert_config.cambio_anegado_pct
    THEN <<[tipo |-> "incremento_anegamiento", severidad |-> "alta", cuenca |-> nombre_cuenca,
            accion_sugerida |-> "Verificar compuertas y canales principales",
            porcentaje |-> cambio.tendencia.cambio_total_pct]>>
    ELSE <<>>

\* lines 764-790, over self.cuencas.keys(), as [raised, list]; a fault in
\* detect_changes leaves the loop
RECURSIVE change_alerts(_, _, _)
change_alerts(order, ref, cur) ==
    IF order = <<>> THEN [raised |-> FALSE, list |-> <<>>]
    ELSE LET rest == change_alerts(SubSeq(order, 1, Len(order) - 1), ref, cur)
             nombre == order[Len(order)]
             cambio == detect_changes(ref[nombre], cur[nombre]).out
         IN  IF rest.raised THEN rest
             ELSE IF Raised(cambio) THEN [raised |-> TRUE, list |-> <<>>]
             ELSE [raised |-> FALSE, list |-> rest.list \o change_alert(nombre, cambio)]

\* severidad_orden.get(x["severidad"], 3)
severidad_orden(severidad) ==
    CASE severidad = "alta" -> 0
      [] severidad = "media" -> 1
      [] severidad = "baja" -> 2
      [] OTHER -> 3

\* the list returned as generated
sort_alertas_skipped(lista) == lista

\* lines 793-794 and 923-924
sort_alertas(lista) ==
    StableSort(lista, [a \in {lista[i] : i \in DOMAIN lista} |-> severidad_orden(a.severidad)])

\* generate_alerts before the sort, as [raised, list]: the alerts in the order
\* they are appended
generate_alerts_list(cur, ref, with_reference) ==
    LET result == classify_parcels_by_cuenca(CuencaOrder, cur)
    IN  IF Raised(result) THEN [raised |-> TRUE, list |-> <<>>]
        ELSE LET abs == area_alerts(result.cuencas)
                 chg == IF with_reference THEN change_alerts(CuencaOrder, ref, cur)
                        ELSE [raised |-> FALSE, list |-> <<>>]
             IN  IF chg.raised THEN chg ELSE [raised |-> FALSE, list |-> abs \o chg.list]

generate_alerts(cur, ref, with_reference) ==
    LET lista == generate_alerts_list(cur, ref, with_reference)
    IN  IF lista.raised THEN EEException
        ELSE LET sorted == sort_alertas(lista.list)
             IN  [alertas |-> sorted,
                  total_alertas |-> Len(sorted),
                  alertas_altas |-> Len(SelectSeq(sorted, LAMBDA a : a.severidad = "alta")),
                  alertas_medias |-> Len(SelectSeq(sorted, LAMBDA a : a.severidad = "media"))]

\* _generate_alerts_from_results
generate_alerts_from_results(cuencas_result) ==
    sort_alertas(area_alerts(cuencas_result.cuencas))

\* Problematic percentages explored around the elevated (10 %) and critical (20 %) cutoffs
CurrentScenes == {Scene(10000, 0, g) : g \in {1000, 1001, 2000, 2001}}
\* Reference periods at 15 % problematic, without and with surface water
ReferenceScenes == {Scene(10000, 0, 1500), Scene(10000, 305, 1195)}

Orders ==
    {o \in [1..Len(CuencaOrder) -> Cuencas] : \A i, j \in DOMAIN o : i # j => o[i] # o[j]}

\* no alert generation is under way
AlertasIdle ==
    alertas = [called |-> "none", call |-> "none"]

\* the pending call and what the backend will yield for each watershed
AlertasInit ==
    \/ \E cur \in [Cuencas -> CurrentScenes \cup {NoImagery, BackendFault}],
          ref \in [Cuencas -> ReferenceScenes \cup {NoImagery}],
          with_reference \in BOOLEAN :
            /\ with_reference \/ ref = [c \in Cuencas |-> NoImagery]
            /\ alertas = [called |-> "none", call |-> "generate_alerts", cur |-> cur,
                          ref |-> ref, with_reference |-> with_reference]
    \/ \E order \in Orders, cur \in [Cuencas -> CurrentScenes \cup {NoImagery}] :
            alertas = [called |-> "none", call |-> "_generate_alerts_from_results",
                       order |-> order, cur |-> cur]
    \/ \E order \in Orders, cur \in [Cuencas -> CurrentScenes \cup {NoImagery, BackendFault}] :
            alertas = [called |-> "none", call |-> "classify_parcels_by_cuenca",
                       order |-> order, cur |-> cur]

\* classify_parcels_by_cuenca(start_date, end_date), self.cuencas holding the
\* watersheds in any order
ClassifyByCuenca ==
    /\ alertas.called = "none" /\ alertas.call = "classify_parcels_by_cuenca"
    /\ alertas' = [called |-> "classify_parcels_by_cuenca", order |-> alertas.order,
                   cur |-> alertas.cur,
                   out |-> classify_parcels_by_cuenca(alertas.order, alertas.cur)]
    /\ UNCHANGED <<raster, cache, clock, req, summaries, refreshes, cambios, parcelas, jobs,
                   composite, limiter>>

\* generate_alerts(start_date, end_date, reference_start, reference_end)
GenerateAlerts ==
    /\ alertas.called = "none" /\ alertas.call = "generate_alerts"
    /\ LET cur == alertas.cur
           ref == alertas.ref
           with_reference == alertas.with_reference
       IN
        /\ alertas' = [called |-> "generate_alerts", cur |-> cur, ref |-> ref,
                       with_reference |-> with_reference,
                       cuencas |-> resultados(CuencaOrder, cur).list,
                       cambios |-> IF with_reference
                                   THEN [c \in Cuencas |-> detect_changes(ref[c], cur[c]).out]
                                   ELSE <<>>,
                       lista |-> generate_alerts_list(cur, ref, with_reference).list,
                       out |-> generate_alerts(cur, ref, with_reference)]
        /\ UNCHANGED <<raster, cache, clock, req, summaries, refreshes, cambios, parcelas, jobs,
                   composite, limiter>>

\* _generate_alerts_from_results(cuencas_result), as get_monitoring_summary calls it
\* with a result of classify_parcels_by_cuenca, here over any watershed order
GenerateAlertsFromResults ==
    /\ alertas.called = "none" /\ alertas.call = "_generate_alerts_from_results"
    /\ LET order == alertas.order
           cuencas_result == classify_parcels_by_cuenca(order, alertas.cur)
       IN  /\ alertas' = [called |-> "_generate_alerts_from_results", order |-> order,
                           cuencas |-> cuencas_result.cuencas,
                           lista |-> area_alerts(cuencas_result.cuencas),
                           out |-> generate_alerts_from_results(cuencas_result)]
            /\ UNCHANGED <<raster, cache, clock, req, summaries, refreshes, cambios,
                           parcelas, jobs,
                   composite, limiter>>

(***************************************************************************)
(* classify_parcels over a region: query, area statistics, vector payload  *)
(***************************************************************************)

\* One pixel of each class under the default thresholds
PixelAgua     == [ndvi |-> 30, ndwi |-> 0, mndwi |-> 30, ndmi |-> 10, bsi |-> 0]
PixelAnegado  == [ndvi |-> 10, ndwi |-> 0, mndwi |-> 0, ndmi |-> 30, bsi |-> 0]
PixelCultivo  == [ndvi |-> 60, ndwi |-> 0, mndwi |-> -30, ndmi |-> 10, bsi |-> 0]
PixelSuelo    == [ndvi |-> 5, ndwi |-> 0, mndwi |-> -30, ndmi |-> 10, bsi |-> 10]
PixelRastrojo == [ndvi |-> 30, ndwi |-> 0, mndwi |-> -30, ndmi |-> 10, bsi |-> 0]

\* A cell of the composite inside the region: masked (cloud or shadow in every
\* scene, mask_clouds and median) or carrying index values
Masked == [masked |-> TRUE]
Cell(p) == [masked |-> FALSE, pixel |-> p]
CellKinds ==
    {Masked} \cup {Cell(p) : p \in {PixelAgua, PixelAnegado, PixelCultivo, PixelSuelo,
                                    PixelRastrojo}}

MaxCells == 2      \* cells of each kind in a region
CellArea == 1      \* ee.Image.pixelArea() at scale 10: 100 m2, 0.01 ha

\* lines 347-356 at one cell: where a test is masked, where() keeps its input, so a
\* masked cell keeps the value of ee.Image(1)
classified_cell(cell, th) ==
    IF cell.masked THEN RASTROJO ELSE classified(cell.pixel, th)

\* sum over a function with finite domain
RECURSIVE SumOver(_, _)
SumOver(f, dom) ==
    IF dom = {} THEN 0
    ELSE LET x == CHOOSE y \in dom : TRUE IN f[x] + SumOver(f, dom \ {x})

\* lines 359-368: pixel areas summed by class over the region; a class without
\* cells has no group
reduceRegion(cells, th) ==
    LET area(c) == SumOver([k \in CellKinds |-> cells[k] * CellArea],
                           {k \in CellKinds : classified_cell(k, th) = c})
    IN  [c \in {k \in DOMAIN class_names : area(k) > 0} |-> area(c)]

\* line 370: analysis_geometry.area(), of a region made of whole cells
geometry_area(cells) == SumOver([k \in CellKinds |-> cells[k] * CellArea], CellKinds)

\* what the backend yields for a region with these cells: a fault, no scene, or
\* `count` scenes and the sums of lines 362-378
RegionData(backend, cells, th) ==
    IF backend = "fault" THEN BackendFault
    ELSE IF backend = "no_scenes" THEN NoImagery
    ELSE [fault |-> FALSE, count |-> 3, area_total |-> geometry_area(cells),
          groups |-> reduceRegion(cells, th)]

\* line 516
GeoJsonCap == 2000

\* lines 501-534: the response after the vectorization attempt; vec tells whether
\* reduceToVectors / getInfo raises, else the number of polygons it yields
with_geojson(response, vec) ==
    IF vec.fault THEN response @@ [geojson_error |-> "EEException"]
    ELSE IF vec.features < GeoJsonCap
    THEN response @@ [geojson |-> [features |-> vec.features]]
    ELSE response @@ [geojson_warning |-> "GeoJSON muy grande, no incluido"]

\* lines 489-499
with_tile(response, tile_fault) ==
    IF tile_fault THEN response @@ [tile_error |-> "EEException"]
    ELSE response @@ [tile_url |-> "url_format"]

\* classify_parcels(start_date, end_date, layer_name, max_cloud) as a whole: the
\* statistics of classify_parcels(rd) with the query parameters, the instant of
\* the analysis (datetime.now(), line 486), the tile and the vector payload
classify_region(q, rd, tile_fault, vec, now) ==
    LET result == classify_parcels(rd)
    IN  IF Raised(result) THEN result
        ELSE IF HasError(result)
        THEN result @@
             [sugerencia |-> "Intenta aumentar el rango de fechas o el porcentaje de nubes",
              start_date |-> q.start_date, end_date |-> q.end_date]
        ELSE with_geojson(
                 with_tile(result @@ [parametros |->
                                        [start_date |-> q.start_date, end_date |-> q.end_date,
                                         max_cloud |-> q.max_cloud,
                                         layer_name |-> q.layer_name],
                                      fecha_analisis |-> now],
                           tile_fault),
                 vec)

Queries ==
    [layer_name : {"zona", "norte"}, start_date : {"2024-01-01"}, end_date : {"2024-01-31"},
     max_cloud : {30, 40}]
Backends == {"fault", "no_scenes", "scenes"}
Polygons == {0, 1999, 2000, 2001}
Vectorizations ==
    {[fault |-> TRUE, features |-> 0]} \cup {[fault |-> FALSE, features |-> n] : n \in Polygons}

\* no classification of a region is under way
ParcelasIdle ==
    parcelas = [called |-> FALSE]

\* the pending call: its query, the cells of the region and what the backend will do
ParcelasInit ==
    \E q \in Queries, b \in Backends, cells \in [CellKinds -> 0..MaxCells],
       tile_fault \in BOOLEAN, vec \in Vectorizations :
        /\ (b # "scenes") => (cells = [k \in CellKinds |-> 0] /\ ~tile_fault
                            /\ vec = [fault |-> FALSE, features |-> 0])
        /\ parcelas = [called |-> FALSE, q |-> q, backend |-> b, cells |-> cells,
                       tile_fault |-> tile_fault, vec |-> vec]

ClassifyParcels ==
    /\ ~parcelas.called
    /\ "q" \in DOMAIN parcelas
    /\ LET rd == RegionData(parcelas.backend, parcelas.cells, DefaultThresholds)
       IN  parcelas' = [called |-> TRUE, q |-> parcelas.q, backend |-> parcelas.backend,
                        cells |-> parcelas.cells, vec |-> parcelas.vec,
                        tile_fault |-> parcelas.tile_fault,
                        \* backend calls made: scenes counted, areas reduced
                        reduced |-> (parcelas.backend = "scenes"),
                        out |-> classify_region(parcelas.q, rd, parcelas.tile_fault,
                                                parcelas.vec, clock)]
    /\ UNCHANGED <<raster, cache, clock, req, summaries, refreshes, cambios, alertas, jobs,
                   composite, limiter>>

\* Regions of a single kind of cell, for the calls that are repeated
UniformRegions ==
    {[k \in CellKinds |-> IF k = kind THEN n ELSE 0] : kind \in CellKinds, n \in 0..MaxCells}

\* the pending call, to be made twice with the same arguments, over the same scenes
\* and with the same backend outcomes
ParcelasTwiceInit ==
    \E q \in Queries, b \in Backends, cells \in UniformRegions,
       tile_fault \in BOOLEAN, vec \in Vectorizations :
        /\ (b # "scenes") => (cells = [k \in CellKinds |-> 0] /\ ~tile_fault
                            /\ vec = [fault |-> FALSE, features |-> 0])
        /\ parcelas = [called |-> FALSE, q |-> q, backend |-> b, cells |-> cells,
                       tile_fault |-> tile_fault, vec |-> vec]

\* a second invocation of classify_parcels with the arguments and backend data of
\* the first; its result is kept beside the first one
ClassifyParcelsAgain ==
    /\ parcelas.called
    /\ "again" \notin DOMAIN parcelas
    /\ LET rd == RegionData(parcelas.backend, parcelas.cells, DefaultThresholds)
       IN  parcelas' = parcelas @@
                        [again |-> classify_region(parcelas.q, rd, parcelas.tile_fault,
                                                   parcelas.vec, clock)]
    /\ UNCHANGED <<raster, cache, clock, req, summaries, refreshes, cambios, alertas, jobs,
                   composite, limiter>>

(***************************************************************************)
(* Background jobs: api/v1/endpoints/jobs.py, services/gee_analysis_tasks  *)
(***************************************************************************)

NumJobs == 1            \* jobs submitted
MaxJobClock == 1000     \* last instant explored
JobTickSteps == {300}

JobIds == 1..NumJobs

\* celery_app.conf: task_time_limit, in seconds
task_time_limit == 600

\* the two tasks of gee_analysis_tasks
TaskNames == {"analyze_flood_task", "supervised_classification_task"}

\* what monitoring returns to a task, or EEException when the backend call raises:
\* classify_parcels over "zona" (lines 37-41), classify_parcels_by_cuenca (67-70)
task_call(name, rd) ==
    IF name = "analyze_flood_task" THEN classify_parcels(rd)
    ELSE classify_parcels_by_cuenca(CuencaOrder, [c \in Cuencas |-> rd])

NotSubmitted ==
    [state |-> "NONE", name |-> "analyze_flood_task", dates_ok |-> TRUE, rd |-> NoImagery,
     started_at |-> 0, attempts |-> 0, raised |-> FALSE, response |-> "NONE"]

\* no job has been submitted
JobsIdle ==
    jobs = <<>>

JobsInit ==
    jobs = [j \in JobIds |-> NotSubmitted]

\* start_flood_analysis / start_classification: task.delay(...) queues the task and
\* the endpoint answers {"job_id": task.id, "status": "PENDING"}; the dates are
\* passed on as strings, valid or not
StartJob(j) ==
    /\ jobs[j].state = "NONE"
    /\ \E name \in TaskNames, dates_ok \in BOOLEAN,
          rd \in {Scene(10000, 0, 2001), NoImagery, BackendFault} :
        jobs' = [jobs EXCEPT ![j] = [@ EXCEPT !.state = "PENDING", !.name = name,
                                               !.dates_ok = dates_ok, !.rd = rd,
                                               !.response = "PENDING"]]
    /\ UNCHANGED <<raster, cache, clock, req, summaries, refreshes, cambios, alertas, parcelas,
                   composite, limiter>>

\* a worker takes the task; with task_track_started the state STARTED is stored
WorkerStart(j) ==
    /\ jobs[j].state = "PENDING"
    /\ clock + task_time_limit <= MaxJobClock
    /\ jobs' = [jobs EXCEPT ![j] = [@ EXCEPT !.state = "STARTED", !.started_at = clock,
                                               !.attempts = @ + 1]]
    /\ UNCHANGED <<raster, cache, clock, req, summaries, refreshes, cambios, alertas, parcelas,
                   composite, limiter>>

\* the exception is caught, logged and the task queued again
TaskRaiseRetried(j) ==
    /\ jobs[j].state = "STARTED"
    /\ (~jobs[j].dates_ok \/ Raised(task_call(jobs[j].name, jobs[j].rd)))
    /\ jobs[j].attempts < 2
    /\ jobs' = [jobs EXCEPT ![j] = [@ EXCEPT !.state = "PENDING", !.raised = TRUE]]
    /\ UNCHANGED <<raster, cache, clock, req, summaries, refreshes, cambios, alertas, parcelas,
                   composite, limiter>>

\* the body of the task raises (date.fromisoformat on a bad string, or the
\* backend call): except Exception as e: raise e, and the task ends in FAILURE
TaskRaise(j) ==
    /\ jobs[j].state = "STARTED"
    /\ (~jobs[j].dates_ok \/ Raised(task_call(jobs[j].name, jobs[j].rd)))
    /\ jobs' = [jobs EXCEPT ![j] = [@ EXCEPT !.state = "FAILURE", !.raised = TRUE]]
    /\ UNCHANGED <<raster, cache, clock, req, summaries, refreshes, cambios, alertas, parcelas,
                   composite, limiter>>

\* the body of the task returns the result of monitoring (an error result
\* included), and the task ends in SUCCESS
TaskReturn(j) ==
    /\ jobs[j].state = "STARTED"
    /\ jobs[j].dates_ok /\ ~Raised(task_call(jobs[j].name, jobs[j].rd))
    /\ jobs' = [jobs EXCEPT ![j] = [@ EXCEPT !.state = "SUCCESS"]]
    /\ UNCHANGED <<raster, cache, clock, req, summaries, refreshes, cambios, alertas, parcelas,
                   composite, limiter>>

\* the limit enforced at twice its value
TimeLimitLate(j) ==
    /\ jobs[j].state = "STARTED"
    /\ clock - jobs[j].started_at >= 2 * task_time_limit
    /\ jobs' = [jobs EXCEPT ![j] = [@ EXCEPT !.state = "FAILURE"]]
    /\ UNCHANGED <<raster, cache, clock, req, summaries, refreshes, cambios, alertas, parcelas,
                   composite, limiter>>

\* the task has run for task_time_limit seconds: the worker ends it, in FAILURE
TimeLimit(j) ==
    /\ jobs[j].state = "STARTED"
    /\ clock - jobs[j].started_at >= task_time_limit
    /\ jobs' = [jobs EXCEPT ![j] = [@ EXCEPT !.state = "FAILURE"]]
    /\ UNCHANGED <<raster, cache, clock, req, summaries, refreshes, cambios, alertas, parcelas,
                   composite, limiter>>

\* get_job_status: the stored state of the job
GetJobStatus(j) ==
    /\ jobs[j].state # "NONE"
    /\ jobs[j].response # jobs[j].state
    /\ jobs' = [jobs EXCEPT ![j] = [@ EXCEPT !.response = jobs[j].state]]
    /\ UNCHANGED <<raster, cache, clock, req, summaries, refreshes, cambios, alertas, parcelas,
                   composite, limiter>>

\* time passes, up to the instant at which a time limit is due
JobTick ==
    /\ \A j \in JobIds :
          jobs[j].state = "STARTED" => clock - jobs[j].started_at < task_time_limit
    /\ \E d \in JobTickSteps :
          /\ clock + d <= MaxJobClock
          /\ clock' = clock + d
    /\ UNCHANGED <<raster, cache, req, summaries, refreshes, cambios, alertas, parcelas, jobs,
                   composite, limiter>>

(***************************************************************************)
(* Sentinel-2 composites: ImageExplorer.get_sentinel2_image and            *)
(* MonitoringService._get_sentinel2_composite.  Dates are days counted     *)
(* from 2019-01-01, so that date.year < 2019 is day < 0.                   *)
(***************************************************************************)

\* gee_service.py lines 628-666: the composite of the image explorer, or the error
\* record when no scene matches
get_sentinel2_image(target_date, days_buffer, use_median, count) ==
    LET use_toa == target_date < 0
    IN  IF count = 0
        THEN [error |-> "No se encontraron imagenes para la fecha seleccionada"]
        ELSE [collection |-> IF use_toa THEN "COPERNICUS/S2_HARMONIZED"
                             ELSE "COPERNICUS/S2_SR_HARMONIZED",
              start_date |-> target_date - days_buffer,
              end_date |-> target_date + days_buffer,
              mask_clouds |-> ~use_toa,
              reducer |-> IF ~use_toa /\ use_median THEN "median" ELSE "mosaic"]

\* monitoring_service.py lines 142-179: (None, 0) when no scene matches, else the
\* median of the cloud-masked surface-reflectance scenes
get_sentinel2_composite(start_date, end_date, count) ==
    IF count = 0 THEN [error |-> "None"]
    ELSE [collection |-> "COPERNICUS/S2_SR_HARMONIZED",
          start_date |-> start_date, end_date |-> end_date,
          mask_clouds |-> TRUE, reducer |-> "median"]

\* dates explored: mid 2017, the last and first days around 2019-01-01, mid 2021
CompositeDates == {-550, -31, -10, -1, 0, 10, 31, 900}
SceneCounts == {0, 1, 3}

\* no composite is being built
CompositeIdle == composite = [called |-> FALSE]

\* the pending call: the explorer with its target date, or the pipeline with its
\* period, and the number of scenes the collection will hold
CompositeInit ==
    \/ \E t \in CompositeDates, b \in {10, 30}, m \in BOOLEAN, n \in SceneCounts :
            composite = [called |-> FALSE, caller |-> "get_sentinel2_image",
                         target_date |-> t, days_buffer |-> b, use_median |-> m, count |-> n]
    \/ \E d1 \in CompositeDates, d2 \in CompositeDates, n \in SceneCounts :
            /\ d1 < d2
            /\ composite = [called |-> FALSE, caller |-> "_get_sentinel2_composite",
                            start_date |-> d1, end_date |-> d2, count |-> n]

GetSentinel2Image ==
    /\ ~composite.called /\ composite.caller = "get_sentinel2_image"
    /\ composite' = [composite EXCEPT !.called = TRUE] @@
                      [out |-> get_sentinel2_image(composite.target_date,
                                                   composite.days_buffer,
                                                   composite.use_median, composite.count)]
    /\ UNCHANGED <<raster, cache, clock, req, summaries, refreshes, cambios, alertas,
                   parcelas, jobs, limiter>>

GetSentinel2Composite ==
    /\ ~composite.called /\ composite.caller = "_get_sentinel2_composite"
    /\ composite' = [composite EXCEPT !.called = TRUE] @@
                      [out |-> get_sentinel2_composite(composite.start_date,
                                                       composite.end_date, composite.count)]
    /\ UNCHANGED <<raster, cache, clock, req, summaries, refreshes, cambios, alertas,
                   parcelas, jobs, limiter>>

(***************************************************************************)
(* Rate limiting: core/rate_limit.py (DistributedRateLimiter) and the      *)
(* middleware of main.py.  Timestamps are whole seconds.                   *)
(***************************************************************************)

\* DistributedRateLimiter(window_seconds=60)
window_seconds == 60

max_requests       == 1     \* requests allowed per window (100 in the settings)
MAX_MEMORY_ENTRIES == 2     \* keys the fallback store holds before cleanup (10000)
MaxCalls           == 4     \* calls to the limiter explored
MaxLimiterClock    == 160   \* last instant explored
NumProcs           == 2     \* concurrent check() calls in Redis mode

\* client addresses, enough of them to overfill the store
Identifiers == 1..(MAX_MEMORY_ENTRIES + 2)
\* cost of a check: up to one more than the window allows
Costs == 1..(max_requests + 1)
Procs == 1..NumProcs

\* _memory_store is a dict in insertion order: a sequence of [key, times]
\* self._memory_store[identifier], [] for a missing key
Times(store, identifier) ==
    IF \E i \in DOMAIN store : store[i].key = identifier
    THEN store[CHOOSE i \in DOMAIN store : store[i].key = identifier].times
    ELSE <<>>

\* self._memory_store[identifier] = times: in place, or appended for a new key
Put(store, identifier, times) ==
    IF \E i \in DOMAIN store : store[i].key = identifier
    THEN [i \in DOMAIN store |->
            IF store[i].key = identifier THEN [key |-> identifier, times |-> times]
            ELSE store[i]]
    ELSE Append(store, [key |-> identifier, times |-> times])

\* [t for t in times if t > window_start]
InWindow(times, now) ==
    LET keep(t) == t > now - window_seconds IN SelectSeq(times, keep)

\* min(times) of a non-empty list
Oldest(times) ==
    CHOOSE t \in {times[i] : i \in DOMAIN times} : \A i \in DOMAIN times : t <= times[i]

\* lines 188-225: expired timestamps and empty keys removed; if the store is still
\* over MAX_MEMORY_ENTRIES, the half of the keys with the oldest timestamps evicted
cleanup_memory_store(store, now) ==
    LET pruned == [i \in DOMAIN store |->
                     [key |-> store[i].key, times |-> InWindow(store[i].times, now)]]
        live(e) == e.times # <<>>
        kept == SelectSeq(pruned, live)
        sorted_keys == StableSort(kept, [e \in {kept[i] : i \in DOMAIN kept} |->
                                            Oldest(e.times)])
        keys_to_remove == {sorted_keys[i].key : i \in 1..(Len(sorted_keys) \div 2)}
        stays(e) == e.key \notin keys_to_remove
    IN  IF Len(kept) > MAX_MEMORY_ENTRIES THEN SelectSeq(kept, stays) ELSE kept

\* _check_memory, lines 233-264, under the lock: the store afterwards and the
\* tuple (allowed, remaining, reset_time) returned
check_memory(store, identifier, cost, now) ==
    LET cleaned == IF Len(store) > MAX_MEMORY_ENTRIES
                   THEN cleanup_memory_store(store, now) ELSE store
        times == InWindow(Times(cleaned, identifier), now)
        current_count == Len(times)
        reset_time == IF times # <<>> THEN Oldest(times) + window_seconds - now
                      ELSE window_seconds
    IN  IF current_count + cost > max_requests
        THEN [store |-> Put(cleaned, identifier, times), allowed |-> FALSE,
              remaining |-> IF max_requests - current_count > 0
                            THEN max_requests - current_count ELSE 0,
              reset_time |-> IF reset_time > 1 THEN reset_time ELSE 1]
        ELSE [store |-> Put(cleaned, identifier, times \o [i \in 1..cost |-> now]),
              allowed |-> TRUE,
              remaining |-> IF max_requests - current_count - cost > 0
                            THEN max_requests - current_count - cost ELSE 0,
              reset_time |-> window_seconds]

\* a limiter just constructed: empty fallback store, empty Redis, no call under
\* way; admitted is the log of the request units admitted for each identifier
\* since it was last reset
LimiterInit ==
    limiter = [store |-> <<>>, zset |-> {}, procs |-> [p \in Procs |-> [pc |-> "idle"]],
               admitted |-> [id \in Identifiers |-> <<>>], calls |-> 0,
               last |-> [op |-> "none"]]

\* the limiter after check(identifier, cost) has returned r
AfterCheck(identifier, cost, now, r) ==
    [limiter EXCEPT
        !.admitted[identifier] = IF r.allowed THEN @ \o [i \in 1..cost |-> now] ELSE @,
        !.calls = @ + 1,
        !.last = [op |-> "check", identifier |-> identifier, cost |-> cost, now |-> now,
                  allowed |-> r.allowed, remaining |-> r.remaining,
                  reset_time |-> r.reset_time]]

\* check(identifier, cost) without Redis
Check(identifier, cost) ==
    /\ limiter.calls < MaxCalls
    /\ LET r == check_memory(limiter.store, identifier, cost, clock)
       IN  limiter' = [AfterCheck(identifier, cost, clock, r) EXCEPT !.store = r.store]
    /\ UNCHANGED <<raster, cache, clock, req, summaries, refreshes, cambios, alertas,
                   parcelas, jobs, composite>>

\* get_status(identifier) without Redis, lines 328-341
GetStatus(identifier) ==
    /\ limiter.calls < MaxCalls
    /\ LET times == InWindow(Times(limiter.store, identifier), clock)
       IN  limiter' = [limiter EXCEPT
                          !.store = Put(@, identifier, times),
                          !.calls = @ + 1,
                          !.last = [op |-> "get_status", identifier |-> identifier,
                                    now |-> clock, current_count |-> Len(times)]]
    /\ UNCHANGED <<raster, cache, clock, req, summaries, refreshes, cambios, alertas,
                   parcelas, jobs, composite>>

\* reset(identifier) without Redis, lines 288-292
Reset(identifier) ==
    /\ limiter.calls < MaxCalls
    /\ LET others(e) == e.key # identifier
       IN  limiter' = [limiter EXCEPT
                          !.store = SelectSeq(@, others),
                          !.admitted[identifier] = <<>>,
                          !.calls = @ + 1,
                          !.last = [op |-> "reset", identifier |-> identifier, now |-> clock]]
    /\ UNCHANGED <<raster, cache, clock, req, summaries, refreshes, cambios, alertas,
                   parcelas, jobs, composite>>

\* time passes for the limiter
LimiterTick ==
    /\ clock + 30 <= MaxLimiterClock
    /\ clock' = clock + 30
    /\ UNCHANGED <<raster, cache, req, summaries, refreshes, cambios, alertas,
                   parcelas, jobs, composite, limiter>>

\* request paths: the two exempt ones and one API path
Paths == {"/", "/health", "/api/v1/monitoring/dashboard"}

\* only "/health" passed round the limiter
exempt_health_only == {"/health"}

\* main.py line 49
exempt_paths == {"/", "/health"}

\* DistributedRateLimitMiddleware.dispatch, lines 47-91, without Redis; the
\* application answers 200
Dispatch(path, client_ip) ==
    /\ limiter.calls < MaxCalls
    /\ IF path \in exempt_paths
       THEN limiter' = [limiter EXCEPT
                           !.calls = @ + 1,
                           !.last = [op |-> "dispatch", path |-> path,
                                     identifier |-> client_ip, now |-> clock,
                                     checked |-> FALSE, status |-> 200]]
       ELSE LET r == check_memory(limiter.store, client_ip, 1, clock)
            IN  limiter' = [AfterCheck(client_ip, 1, clock, r) EXCEPT
                               !.store = r.store,
                               !.last = [op |-> "dispatch", path |-> path,
                                         identifier |-> client_ip, now |-> clock,
                                         checked |-> TRUE,
                                         status |-> IF r.allowed THEN 200 ELSE 429]]
    /\ UNCHANGED <<raster, cache, clock, req, summaries, refreshes, cambios, alertas,
                   parcelas, jobs, composite>>

\* Redis mode.  The sorted set of key ratelimit:<identifier> is the set of
\* [key, member, score] with that key; a member is f"{now}:{i}", here <<now, i>>.

\* _check_redis lines 140-156: now read, then ZREMRANGEBYSCORE and ZCARD executed
\* as one pipeline
RedisPipeline(p, identifier, cost) ==
    /\ limiter.calls < MaxCalls
    /\ limiter.procs[p].pc = "idle"
    /\ LET expired == {e \in limiter.zset :
                          e.key = identifier /\ e.score <= clock - window_seconds}
           left == limiter.zset \ expired
       IN  limiter' = [limiter EXCEPT
                          !.zset = left,
                          !.calls = @ + 1,
                          !.procs[p] = [pc |-> "counted", identifier |-> identifier,
                                        cost |-> cost, now |-> clock, i |-> 0,
                                        current_count |->
                                            Cardinality({e \in left : e.key = identifier})]]
    /\ UNCHANGED <<raster, cache, clock, req, summaries, refreshes, cambios, alertas,
                   parcelas, jobs, composite>>

\* lines 159-167: over the limit, ZRANGE for the oldest entry and the denial returned
RedisDeny(p) ==
    LET c == limiter.procs[p]
    IN  /\ c.pc = "counted"
        /\ c.current_count + c.cost > max_requests
        /\ limiter' = [limiter EXCEPT
                          !.procs[p] = [pc |-> "idle"],
                          !.last = [op |-> "check", identifier |-> c.identifier,
                                    cost |-> c.cost, now |-> c.now, allowed |-> FALSE]]
        /\ UNCHANGED <<raster, cache, clock, req, summaries, refreshes, cambios, alertas,
                       parcelas, jobs, composite>>

\* lines 170-171: one ZADD of the loop; a member already in the set is replaced
RedisZadd(p) ==
    LET c == limiter.procs[p]
    IN  /\ c.pc = "counted"
        /\ c.current_count + c.cost <= max_requests
        /\ c.i < c.cost
        /\ limiter' = [limiter EXCEPT
                          !.zset = {e \in @ : ~(e.key = c.identifier
                                                /\ e.member = <<c.now, c.i>>)}
                                     \cup {[key |-> c.identifier, member |-> <<c.now, c.i>>,
                                            score |-> c.now]},
                          !.procs[p].i = @ + 1]
        /\ UNCHANGED <<raster, cache, clock, req, summaries, refreshes, cambios, alertas,
                       parcelas, jobs, composite>>

\* lines 173-177: EXPIRE, which drops the key only after every entry has left the
\* window, and the admission returned
RedisReturn(p) ==
    LET c == limiter.procs[p]
    IN  /\ c.pc = "counted"
        /\ c.current_count + c.cost <= max_requests
        /\ c.i = c.cost
        /\ limiter' = [limiter EXCEPT
                          !.procs[p] = [pc |-> "idle"],
                          !.admitted[c.identifier] = @ \o [i \in 1..c.cost |-> c.now],
                          !.last = [op |-> "check", identifier |-> c.identifier,
                                    cost |-> c.cost, now |-> c.now, allowed |-> TRUE]]
        /\ UNCHANGED <<raster, cache, clock, req, summaries, refreshes, cambios, alertas,
                       parcelas, jobs, composite>>

(***************************************************************************)
(* Specifications, one per component                                       *)
(***************************************************************************)

NextClassifier == ClassifyPixel
InitClassifier == RasterInit /\ DashboardInit /\ CompositeIdle /\ LimiterInit
        /\ CambiosIdle /\ AlertasIdle /\ ParcelasIdle /\ JobsIdle
SpecClassifier == InitClassifier /\ [][NextClassifier]_vars

NextCache ==
    \/ Tick
    \/ \E r \in Reqs : DashboardStart(r)
    \/ \E r \in Reqs : DashboardResume(r)
    \/ \E r \in Reqs : DashboardRaise(r)
InitCache == RasterIdle /\ DashboardInit /\ CompositeIdle /\ LimiterInit
        /\ CambiosIdle /\ AlertasIdle /\ ParcelasIdle /\ JobsIdle
SpecCache == InitCache /\ [][NextCache]_vars

NextChanges == DetectChanges
InitChanges == RasterIdle /\ DashboardInit /\ CompositeIdle /\ LimiterInit
        /\ CambiosInit /\ AlertasIdle /\ ParcelasIdle /\ JobsIdle
SpecChanges == InitChanges /\ [][NextChanges]_vars

NextParcels == ClassifyParcels
InitParcels == RasterIdle /\ DashboardInit /\ CompositeIdle /\ LimiterInit
        /\ CambiosIdle /\ AlertasIdle /\ ParcelasInit /\ JobsIdle
SpecParcels == InitParcels /\ [][NextParcels]_vars

NextParcelsTwice == ClassifyParcels \/ ClassifyParcelsAgain \/ Tick
InitParcelsTwice == RasterIdle /\ DashboardInit /\ CompositeIdle /\ LimiterInit
        /\ CambiosIdle /\ AlertasIdle /\ ParcelasTwiceInit /\ JobsIdle
SpecParcelsTwice == InitParcelsTwice /\ [][NextParcelsTwice]_vars

NextJobs ==
    \/ JobTick
    \/ \E j \in JobIds : StartJob(j)
    \/ \E j \in JobIds : WorkerStart(j)
    \/ \E j \in JobIds : TaskReturn(j)
    \/ \E j \in JobIds : TaskRaise(j)
    \/ \E j \in JobIds : TimeLimit(j)
    \/ \E j \in JobIds : GetJobStatus(j)
InitJobs == RasterIdle /\ DashboardInit /\ CompositeIdle /\ LimiterInit
        /\ CambiosIdle /\ AlertasIdle /\ ParcelasIdle /\ JobsInit
\* time passes and the worker enforces the time limit
SpecJobs ==
    /\ InitJobs /\ [][NextJobs]_vars
    /\ WF_vars(JobTick)
    /\ \A j \in JobIds : WF_vars(TimeLimit(j))

\* the dashboard with time passing; whether the backend ever answers a call in
\* flight is left open
SpecCacheLive == SpecCache /\ WF_vars(Tick)

NextAlerts == GenerateAlerts \/ GenerateAlertsFromResults \/ ClassifyByCuenca
InitAlerts == RasterIdle /\ DashboardInit /\ CompositeIdle /\ LimiterInit
        /\ CambiosIdle /\ AlertasInit /\ ParcelasIdle /\ JobsIdle
SpecAlerts == InitAlerts /\ [][NextAlerts]_vars

NextLimiter ==
    \/ LimiterTick
    \/ \E identifier \in Identifiers, cost \in Costs : Check(identifier, cost)
    \/ \E identifier \in Identifiers : GetStatus(identifier)
    \/ \E identifier \in Identifiers : Reset(identifier)
InitLimiter == RasterIdle /\ DashboardInit /\ CompositeIdle /\ LimiterInit
        /\ CambiosIdle /\ AlertasIdle /\ ParcelasIdle /\ JobsIdle
SpecLimiter == InitLimiter /\ [][NextLimiter]_vars

NextMiddleware ==
    \/ LimiterTick
    \/ \E path \in Paths, client_ip \in Identifiers : Dispatch(path, client_ip)
SpecMiddleware == InitLimiter /\ [][NextMiddleware]_vars

NextRedis ==
    \/ LimiterTick
    \/ \E p \in Procs, identifier \in Identifiers, cost \in Costs :
            RedisPipeline(p, identifier, cost)
    \/ \E p \in Procs : RedisDeny(p)
    \/ \E p \in Procs : RedisZadd(p)
    \/ \E p \in Procs : RedisReturn(p)
SpecRedis == InitLimiter /\ [][NextRedis]_vars

NextComposite == GetSentinel2Image \/ GetSentinel2Composite
InitComposite == RasterIdle /\ DashboardInit /\ CompositeInit /\ LimiterInit
        /\ CambiosIdle /\ AlertasIdle /\ ParcelasIdle /\ JobsIdle
SpecComposite == InitComposite /\ [][NextComposite]_vars

(***************************************************************************)
(* Properties of the parcel classifier (SpecClassifier)                    *)
(***************************************************************************)

MaskClass ==
    [agua |-> 2, anegado |-> 3, cultivo_sano |-> 0, suelo_desnudo |-> 4, rastrojo |-> 1]

\* The raw rules of the decision procedure, without the gates on earlier branches
RuleSurfaceWater(p, th) ==
    p.mndwi > th.mndwi_agua \/ (p.ndwi > th.ndwi_agua_alto /\ p.ndvi < th.ndvi_max_agua)
RuleWaterlogged(p, th) ==
    \/ (p.mndwi > th.mndwi_anegado_min /\ p.mndwi < th.mndwi_anegado_max
        /\ p.ndvi < th.ndvi_anegado_max)
    \/ (p.ndmi > th.ndmi_anegado_min /\ p.ndvi < th.ndvi_anegado_max)
RuleHealthyCrop(p, th) ==
    p.ndvi > th.ndvi_cultivo_sano /\ p.ndmi > th.ndmi_cultivo_min /\ p.ndmi < th.ndmi_cultivo_max
RuleBareSoil(p, th) ==
    p.bsi > th.bsi_suelo_desnudo /\ p.ndvi < th.ndvi_suelo_max /\ p.mndwi < th.mndwi_suelo_max

\* The rules evaluated in order with early exit
FirstMatch(p, th) ==
    IF RuleSurfaceWater(p, th) THEN 2
    ELSE IF RuleWaterlogged(p, th) THEN 3
    ELSE IF RuleHealthyCrop(p, th) THEN 0
    ELSE IF RuleBareSoil(p, th) THEN 4
    ELSE 1

\* The five overlays applied to the default image in the order `order`
RECURSIVE Overlay(_, _)
Overlay(order, r) ==
    IF order = <<>> THEN 1
    ELSE LET m == order[Len(order)]
         IN  IF r[m] THEN MaskClass[m] ELSE Overlay(SubSeq(order, 1, Len(order) - 1), r)

OverlayOrders ==
    {o \in [1..5 -> DOMAIN MaskClass] : \A i, j \in 1..5 : i # j => o[i] # o[j]}

\* C1: for every pixel with defined index values and every threshold set, exactly
\* one of the five class predicates (agua, anegado, cultivo_sano, suelo_desnudo,
\* rastrojo) is true, and the class id written is the id of that predicate.
C1_ExactlyOneClass ==
    raster.valid =>
        /\ Cardinality({m \in DOMAIN MaskClass : raster[m]}) = 1
        /\ raster.classified \in 0..4
        /\ \A m \in DOMAIN MaskClass : raster[m] => raster.classified = MaskClass[m]

\* a pixel that satisfies the raw water rule and the raw waterlogged rule has been classified
C1_Witness ==
    /\ raster.valid
    /\ RuleSurfaceWater(raster.pixel, raster.th)
    /\ RuleWaterlogged(raster.pixel, raster.th)
    /\ raster.agua

DefaultWater(p) == p.mndwi > 15 \/ (p.ndwi > 35 /\ p.ndvi < 10)
DefaultWaterlogged(p) ==
    \/ (p.mndwi > -10 /\ p.mndwi < 15 /\ p.ndvi < 30)
    \/ (p.ndmi > 25 /\ p.ndvi < 30)
DefaultHealthyCrop(p) == p.ndvi > 40 /\ p.ndmi > -10 /\ p.ndmi < 40
DefaultBareSoil(p) == p.bsi > 5 /\ p.ndvi < 15 /\ p.mndwi < -20

Reads(r) == req[r].pc = "idle" /\ req'[r] # req[r]
\* request r comes back from get_monitoring_summary in this step
Returns(r) == req[r].pc = "fetching" /\ req'[r].pc = "idle"
\* the slot holds a payload that has not expired at time t
SlotFresh(t) == cache.data.kind = "ok" /\ t < cache.expires_at

\* C3: once a payload is stored with expiry E, a dashboard read at a time t < E
\* answers with exactly that payload and from_cache = true, does not invoke
\* get_monitoring_summary and leaves payload and expiry of the slot unchanged.
C3_FreshReadServedFromCache ==
    [][\A r \in Reqs :
        (Reads(r) /\ SlotFresh(clock)) =>
            /\ req'[r].pc = "idle"
            /\ req'[r].resp.status = 200
            /\ req'[r].resp.summary = cache.data
            /\ req'[r].resp.from_cache
            /\ summaries' = summaries
            /\ cache' = cache]_vars

\* a request has been answered from the cache, some time after the payload was stored
C3_Witness ==
    \E r \in Reqs :
        /\ req[r].pc = "idle"
        /\ req[r].resp.from_cache
        /\ req[r].resp.summary = cache.data
        /\ cache.data.kind = "ok"
        /\ req[r].now > refreshes[cache.data.id]

\* C4: a read at time now with the slot empty or now >= expiry invokes
\* get_monitoring_summary and returns from_cache = false; the slot is replaced, as a
\* whole, by {that summary, now + 300 s} if and only if the summary succeeds, so the
\* payload and the expiry in the slot always come from the same refresh.
C4_MissRefreshesWholeSlot ==
    [][\A r \in Reqs :
        /\ (Reads(r) /\ ~SlotFresh(clock)) =>
            /\ req'[r].pc = "fetching"
            /\ req'[r].now = clock
            /\ summaries' = summaries + 1
            /\ cache' = cache
        /\ Returns(r) =>
            /\ ~req'[r].resp.from_cache
            /\ IF req'[r].resp.status = 200
               THEN /\ req'[r].resp.summary = [kind |-> "ok", id |-> req[r].call]
                    /\ cache' = [data |-> req'[r].resp.summary,
                                 expires_at |-> req[r].now + 300]
               ELSE cache' = cache
        /\ cache'.data.kind = "ok" =>
            cache'.expires_at = refreshes'[cache'.data.id] + 300]_vars

\* a refresh has stored its summary after time passed since its read
C4_Witness ==
    \E r \in Reqs :
        /\ req[r].pc = "idle"
        /\ req[r].resp.status = 200
        /\ ~req[r].resp.from_cache
        /\ req[r].resp.summary = cache.data
        /\ cache.expires_at = req[r].now + 300
        /\ clock > req[r].now

\* C5: when a refresh fails (error result or exception) the slot keeps the payload
\* and expiry it had: the failing request changes neither, also when the slot holds
\* a still-valid entry written by another request meanwhile.
C5_FailedRefreshKeepsSlot ==
    [][\A r \in Reqs :
        (Returns(r) /\ req'[r].resp.status \in {400, 500}) => cache' = cache]_vars

\* a refresh has failed at a moment when the slot held an unexpired payload, stored
\* by another request while the failing one was under way; the slot still holds it
C5_Witness ==
    \E r \in Reqs :
        /\ req[r].pc = "idle"
        /\ req[r].resp.status = 400
        /\ req[r].resp.slot_fresh
        /\ cache.data.kind = "ok"
        /\ cache.data.id # req[r].call
        /\ clock < cache.expires_at

\* C6: at most one request at a time is between its validity check and its write
\* of the slot (at most one refresh in flight).
C6_SingleRefreshInFlight ==
    Cardinality({r \in Reqs : req[r].pc = "fetching"}) <= 1

\* C29: under any interleaving of concurrent dashboard requests, the expiry stored
\* in the cache slot never decreases, and a refresh that started earlier but
\* finished later never overwrites the payload and expiry written by a refresh
\* that started after it: a payload in the slot is only replaced by the payload of
\* a refresh that started no earlier.
C29_NewestRefreshWins ==
    [][/\ cache'.expires_at >= cache.expires_at
       /\ (cache.data.kind = "ok" /\ cache'.data # cache.data) =>
             /\ cache'.data.kind = "ok"
             /\ refreshes[cache'.data.id] >= refreshes[cache.data.id]]_vars

(***************************************************************************)
(* Properties of the change detector (SpecChanges)                         *)
(***************************************************************************)

\* the call returned a change report
Reported == cambios.called /\ "tendencia" \in DOMAIN cambios.out

\* the problematic-percentage delta of the report: delta % of surface water plus
\* delta % of waterlogged field, each period-2 % minus period-1 %
ProblematicDelta ==
    LET c == cambios.out.cambios_por_clase
    IN  (c["agua_superficie"].periodo2_pct - c["agua_superficie"].periodo1_pct)
        + (c["lote_anegado"].periodo2_pct - c["lote_anegado"].periodo1_pct)

\* C7: detect_changes assigns exactly one trend code to every delta d: d > 5
\* significant worsening, 1 < d <= 5 slight worsening, -1 <= d <= 1 stable,
\* -5 <= d < -1 slight improving, d < -5 significant improving.
C7_TrendPartition ==
    Reported =>
        LET d == ProblematicDelta
            codigo == cambios.out.tendencia.codigo
        IN  /\ cambios.out.tendencia.cambio_total_pct = d
            /\ (d > 500) <=> (codigo = "empeoramiento_significativo")
            /\ (d > 100 /\ d <= 500) <=> (codigo = "empeoramiento_leve")
            /\ (d >= -100 /\ d <= 100) <=> (codigo = "estable")
            /\ (d >= -500 /\ d < -100) <=> (codigo = "mejora_leve")
            /\ (d < -500) <=> (codigo = "mejora_significativa")

\* the backend has no scene for the region and period
NoScenes(rd) == ~rd.fault /\ rd.count = 0
\* the backend has scenes and answers
Classifiable(rd) == ~rd.fault /\ rd.count > 0

\* C8: when the classification of period 1 or of period 2 returns an error,
\* detect_changes returns an error result with no deltas and no trend; it names
\* the failing period and carries its cause; when period 1 fails, period 2 is not
\* classified.
C8_PeriodErrorPropagates ==
    cambios.called =>
        /\ NoScenes(cambios.rd1) =>
            /\ DOMAIN cambios.out = {"error"}
            /\ cambios.out.error =
                 <<"Error en periodo 1", "No se encontraron imagenes Sentinel-2 con pocas nubes">>
            /\ cambios.calls = <<1>>
        /\ (Classifiable(cambios.rd1) /\ NoScenes(cambios.rd2)) =>
            /\ DOMAIN cambios.out = {"error"}
            /\ cambios.out.error =
                 <<"Error en periodo 2", "No se encontraron imagenes Sentinel-2 con pocas nubes">>
            /\ cambios.calls = <<1, 2>>

\* period 1 was classified, period 2 had no scenes, and the call has returned
C8_Witness ==
    /\ cambios.called
    /\ Classifiable(cambios.rd1)
    /\ NoScenes(cambios.rd2)
    /\ "error" \in DOMAIN cambios.out

\* the five parcel classes of ParcelClass, by name
ParcelClassNames == {class_names[c] : c \in DOMAIN class_names}

\* what the classification of a period reports for a class, 0 for a class absent
\* from the period
PeriodValue(rd, clase, field) ==
    LET result == classify_parcels(rd)
    IN  IF clase \in DOMAIN result.clases THEN result.clases[clase][field] ELSE 0

\* C21: for every one of the five parcel classes, the change report holds the
\* period-1 and period-2 area and percentage and their deltas, delta area =
\* period-2 area - period-1 area and delta % = period-2 % - period-1 %, a class
\* absent from a period counting as 0.
C21_DeltasForEveryClass ==
    Reported =>
        \A clase \in ParcelClassNames :
            /\ clase \in DOMAIN cambios.out.cambios_por_clase
            /\ LET c == cambios.out.cambios_por_clase[clase]
               IN  /\ c.periodo1_ha = PeriodValue(cambios.rd1, clase, "hectareas")
                   /\ c.periodo2_ha = PeriodValue(cambios.rd2, clase, "hectareas")
                   /\ c.periodo1_pct = PeriodValue(cambios.rd1, clase, "porcentaje")
                   /\ c.periodo2_pct = PeriodValue(cambios.rd2, clase, "porcentaje")
                   /\ c.diferencia_ha = c.periodo2_ha - c.periodo1_ha
                   /\ c.diferencia_pct = c.periodo2_pct - c.periodo1_pct

(***************************************************************************)
(* Properties of the alert generator (SpecAlerts)                          *)
(***************************************************************************)

\* an alert list has been returned
AlertsReturned ==
    \/ alertas.called = "_generate_alerts_from_results"
    \/ alertas.called = "generate_alerts" /\ "alertas" \in DOMAIN alertas.out

\* the alert list returned
Returned ==
    IF alertas.called = "generate_alerts" THEN alertas.out.alertas ELSE alertas.out

\* how many alerts of the list satisfy a given type, severity and watershed
CountAlerts(lista, tipo, severidad, cuenca) ==
    Cardinality({i \in DOMAIN lista :
        lista[i].tipo = tipo /\ lista[i].severidad = severidad /\ lista[i].cuenca = cuenca})

\* C9: for each successfully classified watershed with problematic percentage p,
\* exactly one high critical-area alert when p > 20, exactly one medium
\* elevated-area alert when 10 < p <= 20, no absolute alert when p <= 10; a
\* watershed never gets both, and no other watershed gets an absolute alert.
C9_AbsoluteAlerts ==
    AlertsReturned =>
        /\ \A i \in DOMAIN alertas.cuencas :
            LET c == alertas.cuencas[i].cuenca
                pct == alertas.cuencas[i].resumen.porcentaje_problematico
            IN  /\ CountAlerts(Returned, "area_critica", "alta", c)
                     = (IF pct > 2000 THEN 1 ELSE 0)
                /\ CountAlerts(Returned, "area_elevada", "media", c)
                     = (IF pct > 1000 /\ pct <= 2000 THEN 1 ELSE 0)
        /\ \A k \in DOMAIN Returned :
            Returned[k].tipo \in {"area_critica", "area_elevada"} =>
                /\ \E i \in DOMAIN alertas.cuencas : alertas.cuencas[i].cuenca = Returned[k].cuenca
                /\ Returned[k].severidad
                     = (IF Returned[k].tipo = "area_critica" THEN "alta" ELSE "media")

\* watersheds at exactly 10 %, exactly 20 % and 20.01 % were classified and alerts returned
C9_Witness ==
    /\ AlertsReturned
    /\ \E i, j, k \in DOMAIN alertas.cuencas :
        /\ alertas.cuencas[i].resumen.porcentaje_problematico = 1000
        /\ alertas.cuencas[j].resumen.porcentaje_problematico = 2000
        /\ alertas.cuencas[k].resumen.porcentaje_problematico = 2001

SeverityRank(severidad) ==
    IF severidad = "alta" THEN 0 ELSE IF severidad = "media" THEN 1 ELSE 2

OfSeverity(lista, severidad) ==
    SelectSeq(lista, LAMBDA a : a.severidad = severidad)

\* C10: in the list returned every high alert precedes every medium one and every
\* medium precedes every low one, whatever the order the watersheds were processed
\* in, and alerts of equal severity keep the order they were generated in.
C10_SortedBySeverity ==
    AlertsReturned =>
        /\ \A i, j \in DOMAIN Returned :
            i < j => SeverityRank(Returned[i].severidad) <= SeverityRank(Returned[j].severidad)
        /\ \A sev \in {"alta", "media", "baja"} :
            OfSeverity(Returned, sev) = OfSeverity(alertas.lista, sev)
        /\ Len(Returned) = Len(alertas.lista)

\* a list generated with a medium alert ahead of two high ones has been returned
C10_Witness ==
    /\ AlertsReturned
    /\ \E i, j, k \in DOMAIN alertas.lista :
        /\ i < j /\ j < k
        /\ alertas.lista[i].severidad = "media"
        /\ alertas.lista[j].severidad = "alta"
        /\ alertas.lista[k].severidad = "alta"
        /\ alertas.lista[j].cuenca # alertas.lista[k].cuenca

\* the change report of a watershed, when generate_alerts ran its change detection
\* and it returned one
ChangeReported(c) ==
    /\ alertas.with_reference
    /\ "tendencia" \in DOMAIN alertas.cambios[c]

\* C11: when a reference period is supplied, generate_alerts emits one high
\* rising-waterlogging alert for a watershed exactly when its change report has the
\* significant-worsening trend; none for a watershed whose change detection
\* returned an error, and none at all without a reference period.
C11_RisingAlertIffSignificantWorsening ==
    (alertas.called = "generate_alerts" /\ AlertsReturned) =>
        \A c \in Cuencas :
            CountAlerts(Returned, "incremento_anegamiento", "alta", c)
              = (IF /\ ChangeReported(c)
                    /\ alertas.cambios[c].tendencia.codigo = "empeoramiento_significativo"
                 THEN 1 ELSE 0)

\* the watersheds whose classification fails: no scenes (an error result) or a
\* backend fault (raised)
FailedCuencas ==
    {c \in Cuencas : NoScenes(alertas.cur[c]) \/ alertas.cur[c].fault}

\* C13: when the classification of a watershed fails, by an error result or by a
\* backend fault, classify_parcels_by_cuenca still returns a result and a ranking
\* entry for every other watershed and omits only the failed ones.
C13_FailedWatershedSkipped ==
    alertas.called = "classify_parcels_by_cuenca" =>
        /\ ~Raised(alertas.out)
        /\ {alertas.out.cuencas[i].cuenca : i \in DOMAIN alertas.out.cuencas}
             = Cuencas \ FailedCuencas
        /\ {alertas.out.ranking_criticidad[i].cuenca :
                i \in DOMAIN alertas.out.ranking_criticidad} = Cuencas \ FailedCuencas

\* classify_parcels_by_cuenca has returned a result
ByCuencaReturned ==
    alertas.called = "classify_parcels_by_cuenca" /\ ~Raised(alertas.out)

\* the watersheds with scenes: their classification succeeds
ClassifiedCuencas == {c \in Cuencas : Classifiable(alertas.cur[c])}

\* C22: the ranking returned by classify_parcels_by_cuenca holds exactly one entry
\* per successfully classified watershed, each with the problematic percentage of
\* that watershed's classification, and is ordered by non-increasing problematic
\* percentage, whatever the order in which the watersheds were classified.
C22_RankingSortedOnePerWatershed ==
    ByCuencaReturned =>
        LET ranking == alertas.out.ranking_criticidad
        IN  /\ \A c \in Cuencas :
                  Cardinality({i \in DOMAIN ranking : ranking[i].cuenca = c})
                    = (IF c \in ClassifiedCuencas THEN 1 ELSE 0)
            /\ \A i \in DOMAIN ranking :
                  ranking[i].porcentaje_problematico =
                    classify_parcels(alertas.cur[ranking[i].cuenca])
                        .resumen.porcentaje_problematico
            /\ \A i, j \in DOMAIN ranking :
                  i < j => ranking[i].porcentaje_problematico
                             >= ranking[j].porcentaje_problematico

\* a returned ranking of three watersheds, the fourth having no scenes, where the
\* first watershed classified has the lowest percentage and is ranked last
C22_Witness ==
    /\ ByCuencaReturned
    /\ Cardinality(ClassifiedCuencas) = 3
    /\ alertas.order[1] \in ClassifiedCuencas
    /\ LET ranking == alertas.out.ranking_criticidad
       IN  /\ Len(ranking) = 3
           /\ ranking[3].cuenca = alertas.order[1]
           /\ ranking[1].porcentaje_problematico > ranking[2].porcentaje_problematico
           /\ ranking[2].porcentaje_problematico > ranking[3].porcentaje_problematico

(***************************************************************************)
(* Properties of classify_parcels over a region (SpecParcels)              *)
(***************************************************************************)

\* the call found scenes and the backend answered: a classification result is due
Classified == parcelas.called /\ parcelas.backend = "scenes"

\* the area of a class in the result, 0 when the class is absent
ClassArea(name) ==
    IF name \in DOMAIN parcelas.out.clases THEN parcelas.out.clases[name].hectareas ELSE 0

ClassAreasSum ==
    ClassArea("cultivo_sano") + ClassArea("rastrojo") + ClassArea("agua_superficie")
    + ClassArea("lote_anegado") + ClassArea("suelo_desnudo")

\* the area of the cells of the region that are not masked: 0.01 ha each
ValidArea ==
    LET kinds == {k \in DOMAIN parcelas.cells : ~k.masked}
    IN  SumOver([k \in kinds |-> parcelas.cells[k]], kinds)

\* C12: in every classification result the per-class areas sum to the total area
\* reported and used as denominator of the percentages, and that total is the
\* valid, non-masked area of the region, also when some cells are masked.
C12_AreasSumToValidArea ==
    Classified =>
        /\ "clases" \in DOMAIN parcelas.out
        /\ ClassAreasSum = parcelas.out.area_total_ha
        /\ parcelas.out.area_total_ha = ValidArea

\* C14: when no scene satisfies the query, classify_parcels does not raise; it
\* returns an error record carrying the region, start_date, end_date and
\* max_cloud of the query, and computes no classification or areas.
C14_NoImageryErrorCarriesQuery ==
    (parcelas.called /\ parcelas.backend = "no_scenes") =>
        /\ ~Raised(parcelas.out)
        /\ HasError(parcelas.out)
        /\ ~parcelas.reduced
        /\ {"clases", "resumen", "area_total_ha"} \cap DOMAIN parcelas.out = {}
        /\ {"start_date", "end_date", "layer_name", "max_cloud"} \subseteq DOMAIN parcelas.out
        /\ \A f \in {"start_date", "end_date", "layer_name", "max_cloud"} :
                parcelas.out[f] = parcelas.q[f]

\* C18: the result holds the complete vector payload when vectorization yields at
\* most 2,000 polygons, and no payload but a warning when it yields more; the area
\* statistics are returned in both cases and when vectorization fails.
C18_VectorPayloadCap ==
    Classified =>
        /\ {"clases", "resumen", "area_total_ha"} \subseteq DOMAIN parcelas.out
        /\ (~parcelas.vec.fault /\ parcelas.vec.features <= 2000) =>
               /\ "geojson" \in DOMAIN parcelas.out
               /\ parcelas.out.geojson.features = parcelas.vec.features
        /\ (~parcelas.vec.fault /\ parcelas.vec.features > 2000) =>
               /\ "geojson" \notin DOMAIN parcelas.out
               /\ "geojson_warning" \in DOMAIN parcelas.out
        /\ parcelas.vec.fault => "geojson" \notin DOMAIN parcelas.out

\* |pct / 100 - part / total * 100| is at most half a hundredth
IsPercentOf(pct, part, total) ==
    LET d == pct * total - part * 10000
    IN  2 * d <= total /\ 2 * d >= 0 - total

CalledTwice == parcelas.called /\ "again" \in DOMAIN parcelas

\* C23: classify_parcels is deterministic: two invocations with the same region,
\* period, cloud limit and thresholds over the same set of scenes return identical
\* classification results, field for field.
C23_SameInputsSameResult ==
    CalledTwice => parcelas.again = parcelas.out

(***************************************************************************)
(* Properties of the Sentinel-2 composites (SpecComposite)                 *)
(***************************************************************************)

\* a composite has been built
CompositeBuilt == composite.called /\ "collection" \in DOMAIN composite.out

\* C24: whenever a composite is built for imagery dated before 2019, by the image
\* explorer or by the classification pipeline, the top-of-atmosphere collection is
\* used and no cloud mask is applied; for imagery from 2019 on, the
\* surface-reflectance collection is used and cloud, shadow and cirrus pixels are
\* masked before merging.  The imagery of a composite is dated from start_date
\* (included) to end_date (excluded).
C24_CollectionByYear ==
    CompositeBuilt =>
        /\ composite.out.end_date <= 0 =>
              /\ composite.out.collection = "COPERNICUS/S2_HARMONIZED"
              /\ ~composite.out.mask_clouds
        /\ composite.out.start_date >= 0 =>
              /\ composite.out.collection = "COPERNICUS/S2_SR_HARMONIZED"
              /\ composite.out.mask_clouds

(***************************************************************************)
(* Properties of the rate limiter (SpecMiddleware, SpecLimiter, SpecRedis) *)
(***************************************************************************)

\* the step is a request to "/" or "/health" going through the middleware
ExemptRequest ==
    /\ limiter'.calls = limiter.calls + 1
    /\ limiter'.last.op = "dispatch"
    /\ limiter'.last.path \in {"/", "/health"}

\* C25: requests to the paths "/" and "/health" are never rate limited: any number
\* of them, from one client and in any interleaving with other requests, is passed
\* through without a 429, and they neither consult nor consume that client's
\* rate-limit quota.
C25_ExemptPathsBypass ==
    [][ExemptRequest =>
          /\ limiter'.last.status = 200
          /\ ~limiter'.last.checked
          /\ limiter'.store = limiter.store
          /\ limiter'.admitted = limiter.admitted]_vars

\* a client whose quota is used up has just been answered 200 on "/health"
C25_Witness ==
    /\ limiter.last.op = "dispatch"
    /\ limiter.last.path = "/health"
    /\ limiter.last.status = 200
    /\ Len(InWindow(Times(limiter.store, limiter.last.identifier), clock)) >= max_requests

\* the request units admitted for an identifier with timestamps in the window of
\* window_seconds that ends at t
AdmittedInWindow(identifier, t) ==
    Cardinality({i \in DOMAIN limiter.admitted[identifier] :
                    /\ limiter.admitted[identifier][i] > t - window_seconds
                    /\ limiter.admitted[identifier][i] <= t})

\* C26: in in-memory mode, for every identifier and every sequence of check() calls
\* by any set of identifiers, the number of request units admitted for that
\* identifier with timestamps inside any sliding window of window_seconds never
\* exceeds max_requests, including after the store has been cleaned up or evicted.
C26_WindowNeverExceeded ==
    \A identifier \in Identifiers :
        \A i \in DOMAIN limiter.admitted[identifier] :
            AdmittedInWindow(identifier, limiter.admitted[identifier][i]) <= max_requests

\* C27: in Redis mode the count-then-add sequence of check() behaves atomically:
\* for concurrent check() calls on one identifier, under any interleaving of their
\* Redis commands, no group of request units admitted for the identifier whose
\* timestamps all lie within one window is larger than max_requests.
C27_CountThenAddAtomic ==
    \A identifier \in Identifiers :
        LET log == limiter.admitted[identifier]
        IN  \A units \in SUBSET DOMAIN log :
                (\A i, j \in units : log[i] - log[j] < window_seconds)
                    => Cardinality(units) <= max_requests

\* C28: the number of identifiers held in the in-memory fallback store stays
\* bounded: after any sequence of check(), get_status() and reset() calls with
\* arbitrary identifiers it never exceeds MAX_MEMORY_ENTRIES + 1.
C28_StoreBounded ==
    Len(limiter.store) <= MAX_MEMORY_ENTRIES + 1

\* the step is a check() call in memory mode that was denied
DeniedCheck ==
    /\ limiter'.calls = limiter.calls + 1
    /\ limiter'.last.op = "check"
    /\ ~limiter'.last.allowed

\* C30: a check() call that is denied records nothing: apart from pruning entries
\* that already fell out of the window, the identifier's recorded request
\* timestamps are unchanged, so that denied requests never postpone the time at
\* which the identifier is admitted again.
C30_DeniedCheckRecordsNothing ==
    [][DeniedCheck =>
          Times(limiter'.store, limiter'.last.identifier)
              = InWindow(Times(limiter.store, limiter'.last.identifier), clock)]_vars

(***************************************************************************)
(* Properties of the background jobs (SpecJobs)                            *)
(***************************************************************************)

\* pending -> running -> succeeded or failed, as the states the job store holds
JobStep(a, b) ==
    \/ a = b
    \/ <<a, b>> \in {<<"NONE", "PENDING">>, <<"PENDING", "STARTED">>,
                     <<"STARTED", "SUCCESS">>, <<"STARTED", "FAILURE">>}

C17_SingleAttempt ==
    \A j \in JobIds :
        /\ jobs[j].attempts <= 1
        /\ (jobs[j].rd.fault /\ jobs[j].state \notin {"NONE", "PENDING", "STARTED"})
              => jobs[j].state = "FAILURE"

\* a job whose backend call raised has failed after one attempt
C17_Witness ==
    \E j \in JobIds :
        /\ jobs[j].rd.fault /\ jobs[j].dates_ok /\ jobs[j].raised
        /\ jobs[j].state = "FAILURE" /\ jobs[j].attempts = 1

\* C16: a dashboard request whose refresh is in flight eventually completes,
\* also when the backend never answers the call, and so does every later request.
C16_StalledRefreshCompletes ==
    \A r \in Reqs : (req[r].pc = "fetching") ~> (req[r].pc = "idle")

====
